---- MODULE Spec2Model ----
(***************************************************************************)
(* Model of the Speckle automation scripts:                                *)
(*   6-subscription.py        listener that only prints notifications      *)
(*   7autobackup.py           listener with an async HTTP backup           *)
(*   8autobacknewversion.py   listener with a synchronous backup           *)
(*   03_add_properties.py     fetch - mutate - send - create version       *)
(* Strings are sequences of one-character strings, so that formatting,     *)
(* filtering and truncation are computed as the code computes them.        *)
(***************************************************************************)
EXTENDS Naturals, Sequences, FiniteSets, TLC

VARIABLES
    script,          \* which listening script runs: "6", "7" or "8"
    tokenSet,        \* whether SPECKLE_TOKEN is present in the environment
    pc,              \* position of the listen routine
    ws,              \* subscription transport: "unopened", "open", "closed"
    closeCalls,      \* number of times the subscription transport was closed
    connectAttempts, \* number of connection attempts on the subscription transport
    exitKind,        \* why the listen routine left its loop
    received,        \* notifications taken from the stream so far
    completed,       \* notifications whose handling has finished
    inProgress,      \* indices of notifications whose backup is under way
    cur,             \* the notification being handled (or NoNote)
    args,            \* the arguments the backup function was called with
    req,             \* object id the snapshot query was issued for
    result,          \* what that query returned
    outcome,         \* how the backup of cur ended
    fetched,         \* snapshot queries issued for cur
    written,         \* files written for cur
    file,            \* the file written for cur
    log,             \* last status line printed for cur
    httpOpen,        \* HTTP sessions currently open (7autobackup)
    diskError,       \* the write of cur's file was attempted and refused
    failures,        \* notifications whose backup failed so far
    \* --- backup file naming, applied to two backup records ---
    npc,             \* "input" before the names are built, "named" after
    recA, recB,      \* two backup records: version id and message
    name7A, name7B,  \* their file names in 7autobackup
    name8A, name8B,  \* their file names in 8autobacknewversion
    \* --- 03_add_properties ---
    mpc,             \* position in main()
    atElements,      \* length of data["@elements"], or NoField
    elements,        \* length of data["elements"], or NoField
    rootProps,       \* root-level properties set on the received object
    mI,              \* enumerate() index of the next child element
    elemBefore,      \* the child element last visited, as received
    elemAfter,       \* the same element after the loop body
    indices,         \* element_index of each child visited so far (Absent: not written)
    sends,           \* operations.send calls
    sentAfter,       \* child elements already visited when send was called
    sentId,          \* object id returned by operations.send
    versionsCreated, \* client.version.create calls
    versionObject    \* objectId of the version created

lvars == <<script, tokenSet, pc, ws, closeCalls, connectAttempts, exitKind,
           received, completed, inProgress, cur, args, req, result, outcome,
           fetched, written, file, log, httpOpen, diskError, failures>>

nvars == <<npc, recA, recB, name7A, name7B, name8A, name8B>>

mvars == <<mpc, atElements, elements, rootProps, mI, elemBefore, elemAfter, indices,
           sends, sentAfter, sentId, versionsCreated, versionObject>>

vars == <<lvars, nvars, mvars>>

----------------------------------------------------------------------------
(* Bounds *)

MaxNotifications == 2

----------------------------------------------------------------------------
(* Values *)

Null == [k |-> "null"]
Absent == [k |-> "absent"]
Str(s) == [k |-> "str", s |-> s]

\* Python truthiness of an optional string: None and "" are falsy
Truthy(v) == v.k = "str" /\ v.s # <<>>

\* dict.get(key, default): the default applies only when the key is missing
GetOr(v, default) == IF v.k = "absent" THEN default ELSE v
\* dict.get(key): None when the key is missing
Get(v) == GetOr(v, Null)

PROJECT_ID == <<"1","2","8","2","6","2","a","2","0","c">>

V1 == <<"v","1">>
V2 == <<"v","2">>
O1 == <<"o","1">>
O2 == <<"o","2">>
Msg1 == <<"H","i","!"," ">>

EventTypes == {"CREATED", "UPDATED", "DELETED"}

Versions ==
    [k : {"obj"}, id : {Str(V1), Str(V2)},
     referencedObject : {Null, Str(<<>>), Str(O1), Str(O2)},
     message : {Null, Absent, Str(Msg1)}]

\* A subscription result: its projectVersionsUpdated member is null, missing,
\* or an event with a type and a version (null, missing or an object).
Notifications ==
    {[k |-> "null"], [k |-> "absent"]}
    \cup [k : {"event"}, type : EventTypes, version : {Null, Absent} \cup Versions]

NoNote == [k |-> "none"]

\* What the object-data query gives: an exception, or a response whose
\* project, object or data member is null, or data that is empty or not.
NoResult == [k |-> "none", d |-> "none"]
FetchResults ==
    {[k |-> "raise", d |-> "none"], [k |-> "project_null", d |-> "none"],
     [k |-> "object_null", d |-> "none"], [k |-> "object_absent", d |-> "none"],
     [k |-> "data_null", d |-> "none"],
     [k |-> "data_empty", d |-> "none"],
     [k |-> "data", d |-> "A"], [k |-> "data", d |-> "B"]}

NoFile == [k |-> "none"]

----------------------------------------------------------------------------
(* String helpers *)

\* str.isalnum() on the characters of the model's alphabet
Alnum ==
    {"a","b","c","d","e","H","i","j","k","m","n","o","p","s","u","v","N",
     "0","1","2","3","4","5","6","7","8","9"}
IsAlnum(c) == c \in Alnum

RECURSIVE RStrip(_)
\* str.rstrip(): trailing whitespace removed
RStrip(s) ==
    IF s # <<>> /\ s[Len(s)] = " " THEN RStrip(SubSeq(s, 1, Len(s) - 1)) ELSE s

\* a slice that keeps the whole string
TakeWhole(s, n) == s

\* s[:n]
Take(s, n) == SubSeq(s, 1, IF Len(s) < n THEN Len(s) ELSE n)

IsPrefix(p, s) == Len(p) <= Len(s) /\ SubSeq(s, 1, Len(p)) = p

\* an f-string field: str(value), "None" for None
Fmt(v) == IF v.k = "str" THEN v.s ELSE <<"N","o","n","e">>

\* datetime.now().strftime("%Y%m%d_%H%M%S") at second t of the model's clock
Seconds == {0, 1}
Timestamp(t) ==
    <<"2","0","2","6","0","1","1","8","_","1","2","0","0","0">>
        \o <<(<<"0","1","2","3","4","5","6","7","8","9">>)[t + 1]>>

MsgPrefixLen == 20

\* "".join(c for c in message if c.isalnum() or c in (' ', '_')).rstrip()
CleanMsg(message) ==
    RStrip(SelectSeq(message, LAMBDA c : IsAlnum(c) \/ c \in {" ", "_"}))

Backup_ == <<"b","a","c","k","u","p","_">>
DotJson == <<".","j","s","o","n">>

\* 7autobackup: f"backup_{timestamp}_{version_id}_{clean_msg[:20]}.json"
Filename7(timestamp, version_id, message) ==
    Backup_ \o timestamp \o <<"_">> \o Fmt(version_id) \o <<"_">>
        \o Take(CleanMsg(message), MsgPrefixLen) \o DotJson

\* 8autobacknewversion: f"backup_{timestamp}_{version_id}.json"
Filename8(timestamp, version_id) ==
    Backup_ \o timestamp \o <<"_">> \o Fmt(version_id) \o DotJson

----------------------------------------------------------------------------
(* Startup: the token *)

\* 7autobackup: if not SPECKLE_TOKEN: raise ValueError at import time
TokenCheck7(tok) == tok

\* 6-subscription: YOUR_TOKEN is read and used without any check
TokenCheck6(tok) == TRUE

\* main.get_client(), the credential provider of 8autobacknewversion:
\* a missing token is a fatal configuration error
GetClientOk(tok) == tok

StartupOk(s, tok) ==
    CASE s = "6" -> TokenCheck6(tok)
      [] s = "7" -> TokenCheck7(tok)
      [] s = "8" -> GetClientOk(tok)

----------------------------------------------------------------------------
(* The notification filter of the two backup listeners *)

BackupTypes == {"CREATED", "UPDATED"}

\* 7autobackup: event = result.get("projectVersionsUpdated", {}) followed by
\* event.get(...): a null member makes event None and event.get raises
FilterRaises7(n) == n.k = "null"

\* 7autobackup: event_type in ["CREATED", "UPDATED"] and version
\* (a missing member gives {}, whose type is None and whose version is {})
Forward7(n) ==
    /\ n.k = "event"
    /\ n.type \in BackupTypes
    /\ GetOr(n.version, Absent).k = "obj"

\* 8autobacknewversion: if event_data: ... if version and event_type in [...]
Forward8(n) ==
    /\ n.k = "event"
    /\ Get(n.version).k = "obj"
    /\ n.type \in BackupTypes

FilterRaises(s, n) == s = "7" /\ FilterRaises7(n)
Forward(s, n) == IF s = "7" THEN Forward7(n) ELSE s = "8" /\ Forward8(n)

\* 7autobackup: msg = version.get("message", "no_message")
NoMessage == <<"n","o","_","m","e","s","s","a","g","e">>
MessageArg7(version) == GetOr(version.message, Str(NoMessage))
\* 8autobacknewversion: msg = version.get('message')
MessageArg8(version) == Get(version.message)

NoArgs == [k |-> "none"]
\* the arguments of fetch_and_save_data / save_backup for a forwarded notification
CallArgs(s, n) ==
    [k |-> "args",
     version_id |-> Get(n.version.id),
     object_id |-> Get(n.version.referencedObject),
     message |-> IF s = "7" THEN MessageArg7(n.version) ELSE MessageArg8(n.version)]

\* the filter without the test of the object id
TriggersWithoutObjectTest(s, n) == Forward(s, n)

\* if obj_id: the backup is triggered only for a non-empty referencedObject
Triggers(s, n) == Forward(s, n) /\ Truthy(Get(n.version.referencedObject))

----------------------------------------------------------------------------
(* Snapshot fetch and backup write *)

\* the query issued for one fixed object instead of the notification's
QueryFixedObjectId(a) == Str(O1)

\* the objectId variable of the object-data query
QueryObjectId(a) == a.object_id

\* result.get("project", {}).get("object", {}).get("data"):
\* a null project or object raises AttributeError, a missing one gives None
ExtractRaises(r) == r.k \in {"project_null", "object_null"}
DataTruthy(r) == r.k = "data"

\* open(filepath, "w") is reached: data was found and the name was built
WriteAttempted(a, r) ==
    r.k # "raise" /\ ~ExtractRaises(r) /\ DataTruthy(r) /\ a.message.k = "str"

\* How fetch_and_save_data / save_backup ends for call arguments a, query
\* result r and a disk that accepts the write (io) or not.
BackupOutcome(a, r, io) ==
    IF r.k = "raise" THEN "failed"
    ELSE IF ExtractRaises(r) THEN "failed"
    ELSE IF ~DataTruthy(r) THEN "skipped"
    ELSE IF a.message.k # "str" THEN "failed"
    ELSE IF ~io THEN "failed"
    ELSE "saved"

Keys7 == {"projectId", "versionId", "objectId", "backupTime", "data"}
Keys8 == {"projectId", "versionId", "objectId", "message", "backupTimestamp", "data"}

\* the file written: its name and the members of the JSON object dumped
BuildFile(s, a, r, t) ==
    [k |-> "file",
     name |-> IF s = "7" THEN Filename7(Timestamp(t), a.version_id, a.message.s)
              ELSE Filename8(Timestamp(t), a.version_id),
     keys |-> IF s = "7" THEN Keys7 ELSE Keys8,
     projectId |-> PROJECT_ID,
     versionId |-> a.version_id,
     objectId |-> a.object_id,
     data |-> r.d]

\* the status line printed at the end of the backup
StatusLine(o) ==
    CASE o = "saved" -> "saved"
      [] o = "skipped" -> "warning"
      [] o = "failed" -> "failure"

\* a failure that is not swallowed ends the listen loop
AfterBackupPropagates(s, o) == IF o = "failed" THEN "aexit" ELSE "listen"

\* except Exception as e: print(...) swallows the failure, the loop goes on
AfterBackup(s, o) == "listen"

\* the backup started as a task of its own instead of being awaited
ReceiveDuringBackup == pc \in {"listen", "execute"}

\* the listen loop takes the next notification only when it is not inside
\* the awaited backup of the previous one
ReceiveEnabled == pc = "listen"

\* 6-subscription and 8autobacknewversion close the transport again in finally
HasFinallyClose(s) == s \in {"6", "8"}

----------------------------------------------------------------------------
(* The listening scripts *)

Scripts == {"6", "7", "8"}

NoRec == [k |-> "none"]
NoName == <<>>
NoElement == [k |-> "none"]
NoField == [k |-> "absent"]

\* the file naming and the mutation workflow are not running
NamingIdle ==
    /\ npc = "off"
    /\ recA = NoRec /\ recB = NoRec
    /\ name7A = NoName /\ name7B = NoName
    /\ name8A = NoName /\ name8B = NoName

MutationIdle ==
    /\ mpc = "off"
    /\ atElements = NoField /\ elements = NoField
    /\ rootProps = {}
    /\ mI = 0
    /\ elemBefore = NoElement /\ elemAfter = NoElement
    /\ indices = <<>>
    /\ sends = 0 /\ sentAfter = 0 /\ sentId = Null
    /\ versionsCreated = 0 /\ versionObject = Null

\* no listening script is running
ListenIdle ==
    /\ script = "none"
    /\ tokenSet = TRUE
    /\ pc = "off"
    /\ ws = "unopened"
    /\ closeCalls = 0
    /\ connectAttempts = 0
    /\ exitKind = "none"
    /\ received = 0
    /\ completed = 0
    /\ inProgress = {}
    /\ cur = NoNote
    /\ args = NoArgs
    /\ req = Null
    /\ result = NoResult
    /\ outcome = "none"
    /\ fetched = 0
    /\ written = 0
    /\ file = NoFile
    /\ log = "none"
    /\ httpOpen = 0
    /\ diskError = FALSE
    /\ failures = 0

ListenInit ==
    /\ script \in Scripts
    /\ tokenSet \in BOOLEAN
    /\ pc = "start"
    /\ ws = "unopened"
    /\ closeCalls = 0
    /\ connectAttempts = 0
    /\ exitKind = "none"
    /\ received = 0
    /\ completed = 0
    /\ inProgress = {}
    /\ cur = NoNote
    /\ args = NoArgs
    /\ req = Null
    /\ result = NoResult
    /\ outcome = "none"
    /\ fetched = 0
    /\ written = 0
    /\ file = NoFile
    /\ log = "none"
    /\ httpOpen = 0
    /\ diskError = FALSE
    /\ failures = 0

\* module import and the first statements of the listen routine
Startup ==
    /\ script \in Scripts
    /\ pc = "start"
    /\ IF StartupOk(script, tokenSet)
       THEN pc' = "connect" /\ exitKind' = exitKind
       ELSE pc' = "done" /\ exitKind' = "config_error"
    /\ UNCHANGED <<nvars, mvars, script, tokenSet, ws, closeCalls, connectAttempts, received,
                   completed, inProgress, cur, args, req, result, outcome,
                   fetched, written, file, log, httpOpen, diskError, failures>>

\* async with client as session: the transport connects, or raises.
\* In 7autobackup the with statement is outside the try, in the other two
\* the exception reaches except Exception and then finally.
Connect(ok) ==
    /\ pc = "connect"
    /\ connectAttempts' = connectAttempts + 1
    /\ IF ok
       THEN ws' = "open" /\ pc' = "listen" /\ exitKind' = exitKind
       ELSE /\ ws' = ws
            /\ exitKind' = "connect_error"
            /\ pc' = IF HasFinallyClose(script) THEN "finally" ELSE "done"
    /\ UNCHANGED <<nvars, mvars, script, tokenSet, closeCalls, received, completed,
                   inProgress, cur, args, req, result, outcome, fetched,
                   written, file, log, httpOpen, diskError, failures>>

\* one iteration of async for, up to the point where it awaits again
Receive(n) ==
    /\ ReceiveEnabled
    /\ ws = "open"
    /\ received < MaxNotifications
    /\ received' = received + 1
    /\ cur' = n
    /\ result' = NoResult
    /\ written' = 0
    /\ file' = NoFile
    /\ diskError' = FALSE
    /\ IF FilterRaises(script, n)
       THEN \* AttributeError, caught by except Exception of main
            /\ pc' = "aexit" /\ exitKind' = "error"
            /\ outcome' = "none" /\ log' = "connection_error"
            /\ args' = NoArgs /\ req' = Null /\ fetched' = 0
            /\ completed' = completed + 1
            /\ UNCHANGED <<inProgress, httpOpen>>
       ELSE IF Triggers(script, n)
       THEN \* the backup starts: the query is issued and awaited
            /\ pc' = "execute" /\ exitKind' = exitKind
            /\ outcome' = "pending" /\ log' = "starting"
            /\ args' = CallArgs(script, n)
            /\ req' = QueryObjectId(CallArgs(script, n))
            /\ fetched' = 1
            /\ inProgress' = inProgress \cup {received + 1}
            /\ httpOpen' = IF script = "7" THEN httpOpen + 1 ELSE httpOpen
            /\ completed' = completed
       ELSE \* discarded (with a warning when only the object id is missing)
            /\ pc' = pc /\ exitKind' = exitKind
            /\ outcome' = "discarded"
            /\ log' = IF Forward(script, n) THEN "warning"
                      ELSE IF script = "6" THEN "printed" ELSE "none"
            /\ args' = NoArgs /\ req' = Null /\ fetched' = 0
            /\ completed' = completed + 1
            /\ UNCHANGED <<inProgress, httpOpen>>
    /\ UNCHANGED <<nvars, mvars, script, tokenSet, ws, closeCalls, connectAttempts, failures>>

\* a backup that closes its HTTP session only after writing the file
ExecuteReturnLeaking(r, io, t) ==
    /\ pc = "execute"
    /\ result' = r
    /\ outcome' = BackupOutcome(args, r, io)
    /\ IF outcome' = "saved"
       THEN written' = written + 1 /\ file' = BuildFile(script, args, r, t)
       ELSE written' = written /\ file' = file
    /\ diskError' = (WriteAttempted(args, r) /\ ~io)
    /\ log' = StatusLine(outcome')
    /\ failures' = IF outcome' = "failed" THEN failures + 1 ELSE failures
    /\ httpOpen' = IF script = "7" /\ outcome' = "saved" THEN httpOpen - 1 ELSE httpOpen
    /\ inProgress' = inProgress \ {received}
    /\ completed' = completed + 1
    /\ pc' = AfterBackup(script, outcome')
    /\ UNCHANGED <<nvars, mvars, script, tokenSet, ws, closeCalls, connectAttempts, exitKind,
                   received, cur, args, req, fetched>>

\* the query returns (or raises) and the rest of the backup runs to its end
ExecuteReturn(r, io, t) ==
    /\ pc = "execute"
    /\ result' = r
    /\ outcome' = BackupOutcome(args, r, io)
    /\ IF outcome' = "saved"
       THEN written' = written + 1 /\ file' = BuildFile(script, args, r, t)
       ELSE written' = written /\ file' = file
    /\ diskError' = (WriteAttempted(args, r) /\ ~io)
    /\ log' = StatusLine(outcome')
    /\ failures' = IF outcome' = "failed" THEN failures + 1 ELSE failures
    /\ httpOpen' = IF script = "7" THEN httpOpen - 1 ELSE httpOpen
    /\ inProgress' = inProgress \ {received}
    /\ completed' = completed + 1
    /\ pc' = AfterBackup(script, outcome')
    /\ UNCHANGED <<nvars, mvars, script, tokenSet, ws, closeCalls, connectAttempts, exitKind,
                   received, cur, args, req, fetched>>

\* CancelledError / KeyboardInterrupt while the query is awaited: not an
\* Exception, so it leaves the backup and the loop
CancelDuringFetch ==
    /\ pc = "execute"
    /\ outcome' = "cancelled"
    /\ log' = "cancelled"
    /\ httpOpen' = IF script = "7" THEN httpOpen - 1 ELSE httpOpen
    /\ inProgress' = inProgress \ {received}
    /\ pc' = "aexit"
    /\ exitKind' = "cancel"
    /\ UNCHANGED <<nvars, mvars, script, tokenSet, ws, closeCalls, connectAttempts, received,
                   completed, cur, args, req, result, fetched, written, file,
                   diskError, failures>>

\* a listener that reconnects and resubscribes when its stream terminates
LeaveLoopReconnecting(kind) ==
    /\ pc = "listen"
    /\ pc' = "connect"
    /\ exitKind' = kind
    /\ UNCHANGED <<nvars, mvars, script, tokenSet, ws, closeCalls, connectAttempts, received,
                   completed, inProgress, cur, args, req, result, outcome,
                   fetched, written, file, log, httpOpen, diskError, failures>>

\* the loop ends while waiting for the next notification: the stream ends,
\* the connection fails, or the task is cancelled
LeaveLoop(kind) ==
    /\ pc = "listen"
    /\ pc' = "aexit"
    /\ exitKind' = kind
    /\ UNCHANGED <<nvars, mvars, script, tokenSet, ws, closeCalls, connectAttempts, received,
                   completed, inProgress, cur, args, req, result, outcome,
                   fetched, written, file, log, httpOpen, diskError, failures>>

StreamEnd == LeaveLoop("end")
StreamError == LeaveLoop("error")
Cancel == LeaveLoop("cancel")

\* leaving async with client: the client closes its transport
AexitClose ==
    /\ pc = "aexit"
    /\ closeCalls' = closeCalls + 1
    /\ ws' = "closed"
    /\ pc' = IF HasFinallyClose(script) THEN "finally" ELSE "done"
    /\ UNCHANGED <<nvars, mvars, script, tokenSet, connectAttempts, exitKind, received,
                   completed, inProgress, cur, args, req, result, outcome,
                   fetched, written, file, log, httpOpen, diskError, failures>>

\* finally: await transport.close()
FinallyClose ==
    /\ pc = "finally"
    /\ closeCalls' = closeCalls + 1
    /\ ws' = IF ws = "open" THEN "closed" ELSE ws
    /\ pc' = "done"
    /\ UNCHANGED <<nvars, mvars, script, tokenSet, connectAttempts, exitKind, received,
                   completed, inProgress, cur, args, req, result, outcome,
                   fetched, written, file, log, httpOpen, diskError, failures>>

Next ==
    \/ Startup
    \/ \E ok \in BOOLEAN : Connect(ok)
    \/ \E n \in Notifications : Receive(n)
    \/ \E r \in FetchResults, io \in BOOLEAN, t \in Seconds : ExecuteReturn(r, io, t)
    \/ CancelDuringFetch
    \/ StreamEnd
    \/ StreamError
    \/ Cancel
    \/ AexitClose
    \/ FinallyClose

Init == ListenInit /\ NamingIdle /\ MutationIdle

Spec == Init /\ [][Next]_vars

----------------------------------------------------------------------------
(* Claims about the listening scripts *)

BackupListener == script \in {"7", "8"}

\* the notifications the filtering policy discards: a type other than
\* CREATED / UPDATED, or no non-empty referencedObject
DiscardCase(n) ==
    \/ n.k # "event"
    \/ n.type \notin {"CREATED", "UPDATED"}
    \/ n.version.k # "obj"
    \/ n.version.referencedObject.k # "str"
    \/ n.version.referencedObject.s = <<>>

\* C1: in both backup listeners a notification whose type is not CREATED or
\* UPDATED, or whose referencedObject is empty or absent, causes neither an
\* object-data query nor a backup file write.
C1_DiscardedNeverFetched ==
    (BackupListener /\ cur # NoNote /\ DiscardCase(cur))
        => (fetched = 0 /\ written = 0 /\ file = NoFile /\ pc # "execute"
            /\ inProgress = {} /\ httpOpen = 0)

\* a CREATED notification with an empty referencedObject has been handled
\* as the second notification of the stream
C1_Witness ==
    /\ BackupListener /\ received = 2 /\ pc = "listen"
    /\ cur.k = "event" /\ cur.type = "CREATED" /\ cur.version.k = "obj"
    /\ cur.version.referencedObject = Str(<<>>)
    /\ log = "warning"

\* C2: when the fetch-and-persist step of a notification fails (query
\* failure, or an exception while building or writing the backup), the
\* failure is logged and the loop is back at waiting for the next
\* notification with the subscription still open; it is not terminated.
C2_FailureIsolated ==
    [][(BackupListener /\ pc = "execute" /\ outcome' = "failed")
          => (pc' = "listen" /\ ws' = "open" /\ log' = "failure"
              /\ exitKind' = "none" /\ inProgress' = {} /\ written' = 0)]_vars

\* after a failed backup the next notification was consumed and saved
C2_Witness ==
    /\ BackupListener /\ failures = 1 /\ received = 2
    /\ outcome = "saved" /\ written = 1 /\ pc = "listen"

\* C3: in every listening script the subscription transport, once opened,
\* is closed exactly once on every exit path: not left open at exit and
\* never closed more than once.
C3_ClosedExactlyOnce ==
    /\ closeCalls <= 1
    /\ (pc = "done" /\ ws # "unopened") => (ws = "closed" /\ closeCalls = 1)

\* C4: in both backup listeners a forwarded notification whose fetch
\* succeeds with non-empty data, whatever its message (null included),
\* gets exactly one file written (a disk that refuses the write set aside).
C4_OneFilePerFetchedData ==
    (BackupListener /\ cur # NoNote /\ result.k = "data" /\ ~diskError)
        => (written = 1 /\ file # NoFile /\ outcome = "saved")

\* C5: a forwarded notification whose fetch result has empty or absent data
\* writes no file, logs a warning and is not treated as a failure.
C5_EmptyDataIsSkipped ==
    (BackupListener /\ cur # NoNote
       /\ result.k \in {"object_null", "object_absent", "data_null", "data_empty"})
        => (written = 0 /\ log = "warning" /\ outcome = "skipped")

\* C7: with SPECKLE_TOKEN missing every script stops at startup, before any
\* connection, subscription, fetch or file write is attempted.
C7_MissingTokenIsFatal ==
    ~tokenSet
        => (connectAttempts = 0 /\ ws = "unopened"
            /\ received = 0 /\ fetched = 0 /\ written = 0)

\* C8: backups are strictly serial in both backup listeners: the backup of
\* notification k has ended before notification k+1 is taken, at most one
\* backup is in progress, and notifications are handled in arrival order.
C8_StrictlySerial ==
    BackupListener
        => /\ Cardinality(inProgress) <= 1
           /\ inProgress \subseteq {received}
           /\ (inProgress # {}) <=> (pc = "execute")
           /\ (pc = "execute" => completed = received - 1)
           /\ (pc = "listen" => completed = received)

\* the second notification's backup is under way after the first one's
\* backup ended (in a failure)
C8_Witness ==
    /\ BackupListener /\ received = 2 /\ failures = 1
    /\ pc = "execute" /\ inProgress = {2} /\ completed = 1

\* C9: for every forwarded notification that yields a backup, the query is
\* issued for that notification's referencedObject, and the record written
\* carries that notification's version id and object id and the payload
\* that query returned, in a file named backup_<timestamp>_<version id>*.json.
C9_RecordMatchesNotification ==
    /\ (BackupListener /\ fetched > 0)
         => (cur.k = "event" /\ cur.version.k = "obj"
             /\ req = cur.version.referencedObject /\ fetched = 1)
    /\ (BackupListener /\ file # NoFile)
         => /\ written = 1
            /\ result.k = "data" /\ file.data = result.d
            /\ file.versionId = cur.version.id
            /\ file.objectId = cur.version.referencedObject
            /\ file.objectId = req
            /\ file.projectId = PROJECT_ID
            /\ \E t \in Seconds :
                 IsPrefix(Backup_ \o Timestamp(t) \o <<"_">> \o cur.version.id.s,
                          file.name)
            /\ SubSeq(file.name, Len(file.name) - 4, Len(file.name)) = DotJson

\* the second notification, CREATED / v1 / o1, was saved with payload A
C9_Witness ==
    /\ BackupListener /\ received = 2 /\ file # NoFile
    /\ cur.type = "CREATED"
    /\ file.versionId = Str(V1) /\ file.objectId = Str(O1) /\ file.data = "A"

\* the closes of the exit path are awaited and run: the routine does not
\* stay for ever at the exit of async with or in finally
SpecFair == Spec /\ WF_vars(AexitClose) /\ WF_vars(FinallyClose)

StreamTerminated == exitKind \in {"end", "error", "connect_error"}

\* C15: when the subscription stream terminates (connection-level error or
\* end of stream) every listener stops: no reconnect or resubscribe, no
\* further notification, fetch or file write, and the listen routine returns.
C15_TerminationStops ==
    /\ [][/\ StreamTerminated
             => /\ connectAttempts' = connectAttempts
                /\ received' = received
                /\ fetched' = fetched /\ written' = written /\ file' = file
                /\ ws' # "open"
                /\ pc' \in {"finally", "done"}
          /\ StreamTerminated' => pc' \in {"aexit", "finally", "done"}]_vars
    /\ (StreamTerminated ~> (pc = "done"))

\* a listener that saved a backup returned after its stream ended
C15_Witness ==
    /\ exitKind = "end" /\ pc = "done" /\ ws = "closed"
    /\ received = 1 /\ written = 1 /\ connectAttempts = 1

\* the notifications that fail the filter before the object id is looked at
FilterFailCase(n) ==
    \/ n.k \in {"null", "absent"}
    \/ n.version.k \in {"null", "absent"}
    \/ n.type \notin {"CREATED", "UPDATED"}

\* C16: in both backup listeners a notification whose projectVersionsUpdated
\* payload is null or missing, whose version is null or missing, or whose
\* type is neither CREATED nor UPDATED is discarded and the loop goes on to
\* the next notification.
C16_DiscardKeepsListening ==
    [][(BackupListener /\ received' = received + 1 /\ FilterFailCase(cur'))
          => (pc' = "listen" /\ exitKind' = "none" /\ ws' = "open")]_vars

----------------------------------------------------------------------------
(* 5-exportJSON-GQL2: one query, one file *)

OBJECT_ID ==
    <<"c","a","e","9","c","c","c","c","2","3","1","d","4","f","c","7",
      "c","7","3","3","1","c","1","c","9","d","1","5","6","9","6","a">>

ObjectDataJson ==
    <<"o","b","j","e","c","t","_","d","a","t","a">> \o DotJson

KeysExport == {"projectId", "objectId", "data"}

\* How main() ends for query result r and a disk that accepts the write or
\* not: a query exception is caught and printed; subscripting a null or
\* missing project / object and a refused write are not caught; anything
\* else is written, a null or empty data member included.
ExportOutcome(r, io) ==
    IF r.k = "raise" THEN "failed"
    ELSE IF r.k \in {"project_null", "object_null", "object_absent"} THEN "crashed"
    ELSE IF ~io THEN "crashed"
    ELSE "saved"

\* graphql_result["project"]["object"]["data"], as dumped
ExportData(r) ==
    IF r.k = "data" THEN r.d ELSE IF r.k = "data_null" THEN "null" ELSE "empty"

ExportFile(r) ==
    [k |-> "file",
     name |-> ObjectDataJson,
     keys |-> KeysExport,
     projectId |-> PROJECT_ID,
     versionId |-> Absent,
     objectId |-> Str(OBJECT_ID),
     data |-> ExportData(r)]

ExportStatusLine(o) ==
    CASE o = "saved" -> "saved"
      [] o = "failed" -> "failure"
      [] o = "crashed" -> "traceback"

ExportInit ==
    /\ script = "5"
    /\ tokenSet \in BOOLEAN
    /\ pc = "start"
    /\ ws = "unopened"
    /\ closeCalls = 0
    /\ connectAttempts = 0
    /\ exitKind = "none"
    /\ received = 0
    /\ completed = 0
    /\ inProgress = {}
    /\ cur = NoNote
    /\ args = NoArgs
    /\ req = Null
    /\ result = NoResult
    /\ outcome = "none"
    /\ fetched = 0
    /\ written = 0
    /\ file = NoFile
    /\ log = "none"
    /\ httpOpen = 0
    /\ diskError = FALSE
    /\ failures = 0

\* client = get_client()
ExportStartup ==
    /\ script = "5"
    /\ pc = "start"
    /\ IF GetClientOk(tokenSet)
       THEN pc' = "export" /\ exitKind' = exitKind
       ELSE pc' = "done" /\ exitKind' = "config_error"
    /\ UNCHANGED <<nvars, mvars, script, tokenSet, ws, closeCalls, connectAttempts,
                   received, completed, inProgress, cur, args, req, result,
                   outcome, fetched, written, file, log, httpOpen, diskError,
                   failures>>

\* the query and everything after it
ExportRun(r, io) ==
    /\ script = "5"
    /\ pc = "export"
    /\ req' = Str(OBJECT_ID)
    /\ fetched' = fetched + 1
    /\ result' = r
    /\ outcome' = ExportOutcome(r, io)
    /\ IF outcome' = "saved"
       THEN written' = written + 1 /\ file' = ExportFile(r)
       ELSE written' = written /\ file' = file
    /\ diskError' = (r.k \in {"data_null", "data_empty", "data"} /\ ~io)
    /\ log' = ExportStatusLine(outcome')
    /\ failures' = IF outcome' = "saved" THEN failures ELSE failures + 1
    /\ exitKind' = IF outcome' = "crashed" THEN "exception" ELSE exitKind
    /\ pc' = "done"
    /\ UNCHANGED <<nvars, mvars, script, tokenSet, ws, closeCalls, connectAttempts,
                   received, completed, inProgress, cur, args, httpOpen>>

ScriptsInit == (ListenInit \/ ExportInit) /\ NamingIdle /\ MutationIdle

ScriptsNext ==
    \/ Next
    \/ ExportStartup
    \/ \E r \in FetchResults, io \in BOOLEAN : ExportRun(r, io)

\* the listeners and the export script
SpecScripts == ScriptsInit /\ [][ScriptsNext]_vars

\* C13: every file written by the export script and by both backup
\* listeners has the top-level keys projectId, objectId and data, and every
\* other top-level key it has is one of versionId, message, backupTimestamp.
C13_FileKeys ==
    (file # NoFile)
        => /\ {"projectId", "objectId", "data"} \subseteq file.keys
           /\ file.keys \subseteq {"projectId", "objectId", "data",
                                   "versionId", "message", "backupTimestamp"}

\* C14: in the export script, when the query succeeds but the API reports no
\* data for the object (object or data absent), the result is a skip: a
\* warning is printed, no object_data.json is written and nothing fails.
C14_ExportSkipsNoData ==
    (script = "5" /\ result.k \in {"object_null", "object_absent", "data_null"})
        => (written = 0 /\ file = NoFile /\ log = "warning"
            /\ outcome \notin {"crashed", "failed"})

----------------------------------------------------------------------------
(* Backup file naming applied to two backup records of the same second *)

MaxIdLen == 2
MaxMsgLen == 2

IdChars == {"v", "_"}
MsgChars == {"v", "_", " ", "!"}

StringsOver(chars, lo, hi) == UNION {[1..n -> chars] : n \in lo..hi}

\* a backup record as far as its file name goes: a version id and a message
NameRecords ==
    [version_id : {Str(s) : s \in StringsOver(IdChars, 1, MaxIdLen)},
     message : {Str(s) : s \in StringsOver(MsgChars, 0, MaxMsgLen)}]

NamingInit ==
    /\ npc = "input"
    /\ recA \in NameRecords
    /\ recB \in NameRecords
    /\ name7A = NoName /\ name7B = NoName
    /\ name8A = NoName /\ name8B = NoName

\* both records are named by both backup writers, at the same second t
BuildNames(t) ==
    /\ npc = "input"
    /\ npc' = "named"
    /\ name7A' = Filename7(Timestamp(t), recA.version_id, recA.message.s)
    /\ name7B' = Filename7(Timestamp(t), recB.version_id, recB.message.s)
    /\ name8A' = Filename8(Timestamp(t), recA.version_id)
    /\ name8B' = Filename8(Timestamp(t), recB.version_id)
    /\ UNCHANGED <<lvars, mvars, recA, recB>>

NamingNext == \E t \in Seconds : BuildNames(t)

FilenameInit == ListenIdle /\ NamingInit /\ MutationIdle

SpecFilename == FilenameInit /\ [][NamingNext]_vars

\* C6: two backup records with distinct version ids created within the same
\* second, whatever their messages, get distinct file names from the backup
\* writer of each listener.
C6_DistinctIdsDistinctNames ==
    (npc = "named" /\ recA.version_id # recB.version_id)
        => (name7A # name7B /\ name8A # name8B)

----------------------------------------------------------------------------
(* The message component of the 7autobackup file name, on long messages *)

MaxPad == 20

\* n times the character c
Pad(c, n) == [i \in 1..n |-> c]

\* messages of up to MaxPad + MaxMsgLen characters: a run of "v" and then
\* any characters, so that the cleaned message passes the length of the slice
LongMessages ==
    {Pad("v", p) \o tail : p \in 0..MaxPad, tail \in StringsOver(MsgChars, 0, MaxMsgLen)}

LongRecords ==
    [version_id : {Str(s) : s \in StringsOver(IdChars, 1, MaxIdLen)},
     message : {Str(s) : s \in LongMessages}]

\* one backup record, named twice
SanitizeInit ==
    /\ ListenIdle /\ MutationIdle
    /\ npc = "input"
    /\ recA \in LongRecords
    /\ recB = recA
    /\ name7A = NoName /\ name7B = NoName
    /\ name8A = NoName /\ name8B = NoName

SpecSanitize == SanitizeInit /\ [][NamingNext]_vars

\* what stands between "backup_<timestamp>_<version id>_" and ".json"
MessagePart(name, id) == SubSeq(name, 25 + Len(id), Len(name) - 5)

AllowedChar(c) == IsAlnum(c) \/ c = " " \/ c = "_"

\* the message without the characters that are not allowed
Filtered(message) == SelectSeq(message, AllowedChar)

\* p is the first n characters of s, or all of s when s is shorter
IsFirstChars(p, s, n) ==
    /\ Len(p) = (IF Len(s) < n THEN Len(s) ELSE n)
    /\ \A i \in 1..Len(p) : p[i] = s[i]

\* s without the spaces at its end
WithoutTrailingSpaces(s) ==
    LET last == CHOOSE n \in 0..Len(s) :
                    /\ n = 0 \/ s[n] # " "
                    /\ \A j \in (n + 1)..Len(s) : s[j] = " "
    IN  [i \in 1..last |-> s[i]]

\* C19 as stated: in the 7autobackup file name the message component is the
\* first 20 characters of the message after removing every character that
\* is not alphanumeric, a space or an underscore; it is never longer than 20
\* characters and contains only alphanumerics, spaces and underscores.
C19_MessageComponent ==
    (npc = "named")
        => LET part == MessagePart(name7A, recA.version_id.s)
           IN  /\ IsFirstChars(part, Filtered(recA.message.s), 20)
               /\ Len(part) <= 20
               /\ \A i \in 1..Len(part) : AllowedChar(part[i])

\* C19, amended: the message component is the first 20 characters of the
\* message after removing every character that is not alphanumeric, a space
\* or an underscore and then removing the spaces at the end of what is left;
\* it is never longer than 20 characters and contains only alphanumerics,
\* spaces and underscores.
C19_MessageComponentStripped ==
    (npc = "named")
        => LET part == MessagePart(name7A, recA.version_id.s)
           IN  /\ IsFirstChars(part,
                               WithoutTrailingSpaces(Filtered(recA.message.s)), 20)
               /\ Len(part) <= 20
               /\ \A i \in 1..Len(part) : AllowedChar(part[i])

\* a message of 22 allowed characters, the last one a space: 21 are left
\* when the space is gone, and the name has the first 20 of them
C19_Witness ==
    /\ npc = "named"
    /\ Len(recA.message.s) = 22
    /\ recA.message.s[21] = "v" /\ recA.message.s[22] = " "
    /\ Len(Filtered(recA.message.s)) = 22
    /\ Len(MessagePart(name7A, recA.version_id.s)) = 20

----------------------------------------------------------------------------
(* 03_add_properties: fetch one version, mutate, send, create a version *)

MaxElements == 3

Int(n) == [k |-> "int", v |-> n]
NotDict == [k |-> "notdict"]

Giovanni == Str("Giovanni Carlo")
Hala == Str("Hala Lahlou")
OldDesigner == Str("Old Designer")

\* an Identity dictionary: its Module and Designer members (none: {})
Modules == {Absent, Int(1), Int(2), Int(3), Str(<<"1">>)}
IdentityDicts == [k : {"dict"}, Module : Modules, Designer : {Absent, OldDesigner}]
IdentityValues == {Absent, NotDict} \cup IdentityDicts
BIMValues == {Absent} \cup [k : {"dict"}, Identity : IdentityValues]
PropertyBags == [k : {"props"}, Identity : IdentityValues, BIM : BIMValues]

\* a child of the received object: a Base with or without "properties",
\* or something that is not a Base
ChildElements ==
    {[k |-> "nonbase"]}
    \cup [k : {"base"}, properties : {Absent} \cup PropertyBags,
          element_index : {Absent}, custom_tag : {Absent}]

\* the "@elements" / "elements" member: missing, or a sequence of some length
ElementFields == {NoField} \cup [k : {"list"}, n : 0..MaxElements]

\* the two member names probed in the other order
ElementCountElementsFirst(at, el) ==
    IF el.k = "list" /\ el.n > 0 THEN el.n
    ELSE IF at.k = "list" THEN at.n
    ELSE 0

\* getattr(data, "@elements", None) or getattr(data, "elements", []), then
\* (elements or []): the number of children the loop visits
ElementCount(at, el) ==
    IF at.k = "list" /\ at.n > 0 THEN at.n
    ELSE IF el.k = "list" THEN el.n
    ELSE 0

Digit(d) == (<<"0","1","2","3","4","5","6","7","8","9">>)[d + 1]

\* f"Element_{i:03d}" for i < 1000
CustomTag(i) ==
    <<"E","l","e","m","e","n","t","_">>
        \o <<Digit(i \div 100), Digit((i \div 10) % 10), Digit(i % 10)>>

\* the two candidate paths probed in the other order
IdentityPathBIMFirst(props) ==
    IF props.BIM.k = "dict" /\ props.BIM.Identity.k = "dict" THEN "BIM"
    ELSE IF props.Identity.k = "dict" THEN "Identity"
    ELSE "none"

\* which path holds the Identity dictionary: props["Identity"] when it is a
\* dict, else props["BIM"]["Identity"] when that is a dict
IdentityPath(props) ==
    IF props.Identity.k = "dict" THEN "Identity"
    ELSE IF props.BIM.k = "dict" /\ props.BIM.Identity.k = "dict" THEN "BIM"
    ELSE "none"

IdentityAt(props, path) ==
    IF path = "Identity" THEN props.Identity ELSE props.BIM.Identity

\* if not identity: an empty dictionary is skipped
DictEmpty(d) == d.Module = Absent /\ d.Designer = Absent

\* the name appended to the Designer already there instead of replacing it
NewDesignerAppending(module, old) ==
    IF module \in {Int(1), Int(3)}
    THEN IF old = Absent THEN (IF module = Int(1) THEN Giovanni ELSE Hala)
         ELSE IF old = OldDesigner THEN Str("Old Designer, and one more")
         ELSE Str("Old Designer, and two more")
    ELSE old

\* a rule for Module 2 slipped in
NewDesignerWithModule2(module, old) ==
    IF module = Int(1) THEN Giovanni
    ELSE IF module = Int(2) \/ module = Int(3) THEN Hala
    ELSE old

\* if module == 1: ... elif module == 3: ... (no rule: Designer kept)
NewDesigner(module, old) ==
    IF module = Int(1) THEN Giovanni
    ELSE IF module = Int(3) THEN Hala
    ELSE old

SetDesigner(props, path, d) ==
    IF path = "Identity" THEN [props EXCEPT !.Identity.Designer = d]
    ELSE [props EXCEPT !.BIM.Identity.Designer = d]

\* a loop body that creates the Identity dictionary it did not find
LoopBodyCreatingIdentity(element, i) ==
    IF element.k # "base" THEN element
    ELSE LET tagged == [element EXCEPT !.element_index = Int(i),
                                       !.custom_tag = Str(CustomTag(i))]
             props == element.properties
         IN IF props = Absent THEN tagged
            ELSE IF IdentityPath(props) = "none"
            THEN [tagged EXCEPT !.properties.Identity =
                    [k |-> "dict", Module |-> Absent, Designer |-> Absent]]
            ELSE LET path == IdentityPath(props)
                     identity == IdentityAt(props, path)
                 IN IF DictEmpty(identity) THEN tagged
                    ELSE [tagged EXCEPT !.properties =
                            SetDesigner(props, path,
                                NewDesigner(identity.Module, identity.Designer))]

\* the body of the for loop, for the element at enumerate() index i
LoopBody(element, i) ==
    IF element.k # "base" THEN element
    ELSE LET tagged == [element EXCEPT !.element_index = Int(i),
                                       !.custom_tag = Str(CustomTag(i))]
             props == element.properties
         IN IF props = Absent THEN tagged
            ELSE IF IdentityPath(props) = "none" THEN tagged
            ELSE LET path == IdentityPath(props)
                     identity == IdentityAt(props, path)
                 IN IF DictEmpty(identity) THEN tagged
                    ELSE [tagged EXCEPT !.properties =
                            SetDesigner(props, path,
                                NewDesigner(identity.Module, identity.Designer))]

RootProperties == {"custom_property", "analysis_date", "processed_by"}

SentIds == {Str(<<"h","1">>), Str(<<"h","2">>)}

MutationInit ==
    /\ mpc = "start"
    /\ atElements = NoField /\ elements = NoField
    /\ rootProps = {}
    /\ mI = 0
    /\ elemBefore = NoElement /\ elemAfter = NoElement
    /\ indices = <<>>
    /\ sends = 0 /\ sentAfter = 0 /\ sentId = Null
    /\ versionsCreated = 0 /\ versionObject = Null

\* get_client() and client.version.get(VERSION_ID, PROJECT_ID)
GetVersion(ok) ==
    /\ mpc = "start"
    /\ mpc' = IF ok THEN "receive" ELSE "failed"
    /\ UNCHANGED <<lvars, nvars, atElements, elements, rootProps, mI,
                   elemBefore, elemAfter, indices, sends, sentAfter, sentId,
                   versionsCreated, versionObject>>

\* operations.receive, then the root-level properties and the choice of the
\* child sequence
ReceiveObject(ok, at, el) ==
    /\ mpc = "receive"
    /\ IF ok
       THEN /\ mpc' = "loop"
            /\ atElements' = at /\ elements' = el
            /\ rootProps' = RootProperties
       ELSE /\ mpc' = "failed"
            /\ UNCHANGED <<atElements, elements, rootProps>>
    /\ UNCHANGED <<lvars, nvars, mI, elemBefore, elemAfter, indices, sends, sentAfter,
                   sentId, versionsCreated, versionObject>>

\* the element_index member of a child, Absent when it has none
IndexOf(element) ==
    IF element.k = "base" THEN element.element_index ELSE Absent

\* the number of Base children among those visited so far
BaseVisited == Cardinality({p \in DOMAIN indices : indices[p] # Absent})

\* a loop that numbers only the Base children: skipped entries do not count
VisitElementCountingBase(e) ==
    /\ mpc = "loop"
    /\ mI < ElementCount(atElements, elements)
    /\ elemBefore' = e
    /\ elemAfter' = LoopBody(e, BaseVisited)
    /\ indices' = Append(indices, IndexOf(elemAfter'))
    /\ mI' = mI + 1
    /\ UNCHANGED <<lvars, nvars, mpc, atElements, elements, rootProps, sends,
                   sentAfter, sentId, versionsCreated, versionObject>>

\* one iteration of the for loop, over child e
VisitElement(e) ==
    /\ mpc = "loop"
    /\ mI < ElementCount(atElements, elements)
    /\ elemBefore' = e
    /\ elemAfter' = LoopBody(e, mI)
    /\ indices' = Append(indices, IndexOf(elemAfter'))
    /\ mI' = mI + 1
    /\ UNCHANGED <<lvars, nvars, mpc, atElements, elements, rootProps, sends,
                   sentAfter, sentId, versionsCreated, versionObject>>

\* send called from inside the loop, before every child was visited
SendInsideLoop(ok, id) ==
    /\ mpc = "loop"
    /\ sends' = sends + 1
    /\ sentAfter' = mI
    /\ IF ok THEN mpc' = "create" /\ sentId' = id
       ELSE mpc' = "failed" /\ sentId' = sentId
    /\ UNCHANGED <<lvars, nvars, atElements, elements, rootProps, mI,
                   elemBefore, elemAfter, indices, versionsCreated, versionObject>>

\* operations.send(data, [transport]) after the loop
Send(ok, id) ==
    /\ mpc = "loop"
    /\ mI = ElementCount(atElements, elements)
    /\ sends' = sends + 1
    /\ sentAfter' = mI
    /\ IF ok THEN mpc' = "create" /\ sentId' = id
       ELSE mpc' = "failed" /\ sentId' = sentId
    /\ UNCHANGED <<lvars, nvars, atElements, elements, rootProps, mI,
                   elemBefore, elemAfter, indices, versionsCreated, versionObject>>

\* client.version.create(CreateVersionInput(..., objectId=object_id, ...))
CreateVersion(ok) ==
    /\ mpc = "create"
    /\ versionsCreated' = versionsCreated + 1
    /\ versionObject' = sentId
    /\ mpc' = IF ok THEN "done" ELSE "failed"
    /\ UNCHANGED <<lvars, nvars, atElements, elements, rootProps, mI,
                   elemBefore, elemAfter, indices, sends, sentAfter, sentId>>

MutationNext ==
    \/ \E ok \in BOOLEAN : GetVersion(ok)
    \/ \E ok \in BOOLEAN, at \in ElementFields, el \in ElementFields :
          ReceiveObject(ok, at, el)
    \/ \E e \in ChildElements : VisitElement(e)
    \/ \E ok \in BOOLEAN, id \in SentIds : Send(ok, id)
    \/ \E ok \in BOOLEAN : CreateVersion(ok)

MutationWorkflowInit == ListenIdle /\ NamingIdle /\ MutationInit

SpecMutation == MutationWorkflowInit /\ [][MutationNext]_vars

\* the element visited has an Identity dictionary under one of the two paths
IdentityFound(e) ==
    e.k = "base" /\ e.properties # Absent /\ IdentityPath(e.properties) # "none"

\* C10: for every child element whose Identity dictionary is found,
\* Module == 1 sets Designer to the name of module 1, Module == 3 to the name
\* of module 3, and any other Module value (2, absent, ...) leaves the
\* Designer member as it was.
C10_DesignerByModule ==
    (elemBefore # NoElement /\ IdentityFound(elemBefore))
        => LET path == IdentityPath(elemBefore.properties)
               before == IdentityAt(elemBefore.properties, path)
               after == IdentityAt(elemAfter.properties, path)
           IN /\ (before.Module = Int(1) => after.Designer = Str("Giovanni Carlo"))
              /\ (before.Module = Int(3) => after.Designer = Str("Hala Lahlou"))
              /\ (before.Module \notin {Int(1), Int(3)}
                    => after.Designer = before.Designer)
              /\ after.Module = before.Module

\* the second child has Module 2 and an old Designer under BIM.Identity,
\* and kept it
C10_Witness ==
    /\ mI = 2 /\ elemBefore.k = "base" /\ elemBefore.properties # Absent
    /\ IdentityPath(elemBefore.properties) = "BIM"
    /\ elemBefore.properties.BIM.Identity.Module = Int(2)
    /\ elemAfter.properties.BIM.Identity.Designer = OldDesigner

\* C11: the Module-to-Designer substitution is idempotent: applying the
\* per-element mutation to an element already mutated gives that element
\* again.
C11_MutationIdempotent ==
    (elemBefore # NoElement) => LoopBody(elemAfter, mI - 1) = elemAfter

\* a child with Module 1 and an old Designer had its Designer replaced
C11_Witness ==
    /\ elemBefore.k = "base" /\ elemBefore.properties # Absent
    /\ IdentityPath(elemBefore.properties) = "Identity"
    /\ elemBefore.properties.Identity.Module = Int(1)
    /\ elemBefore.properties.Identity.Designer = OldDesigner
    /\ elemAfter.properties.Identity.Designer = Giovanni

\* no Identity dictionary under properties.Identity nor properties.BIM.Identity
NoIdentityDict(e) ==
    \/ e.k # "base"
    \/ e.properties = Absent
    \/ /\ e.properties.Identity.k # "dict"
       /\ (e.properties.BIM.k # "dict" \/ e.properties.BIM.Identity.k # "dict")

\* C12 as stated: a child element whose Identity dictionary cannot be found
\* under either path is, after the loop, equal to what was received.
C12_NotFoundLeftUnmodified ==
    (elemBefore # NoElement /\ NoIdentityDict(elemBefore))
        => elemAfter = elemBefore

\* C12 amended: such an element keeps its properties as received; a Base
\* element still gets element_index and custom_tag, anything that is not a
\* Base is equal to what was received.
C12_NotFoundKeepsProperties ==
    (elemBefore # NoElement /\ NoIdentityDict(elemBefore))
        => IF elemBefore.k = "base"
           THEN /\ elemAfter.properties = elemBefore.properties
                /\ elemAfter.element_index = Int(mI - 1)
                /\ elemAfter.custom_tag = Str(CustomTag(mI - 1))
           ELSE elemAfter = elemBefore

\* a Base child whose properties hold no Identity dictionary was visited
C12_Witness ==
    /\ elemBefore.k = "base" /\ elemBefore.properties # Absent
    /\ elemBefore.properties.Identity = NotDict
    /\ elemBefore.properties.BIM = Absent
    /\ elemAfter.element_index = Int(1)

\* C17: the steps run in the order fetch version, receive, mutate, send,
\* create version: send is called once and only after all mutations,
\* create-version once and only after send, for the object id that send
\* returned; when an earlier step fails no version is created.
C17_StepOrder ==
    /\ sends <= 1 /\ versionsCreated <= 1
    /\ (sends = 1)
         => (rootProps = RootProperties /\ sentAfter = mI
             /\ mI = (IF atElements.k = "list" /\ atElements.n > 0
                      THEN atElements.n
                      ELSE IF elements.k = "list" THEN elements.n ELSE 0))
    /\ (versionsCreated = 1)
         => (sends = 1 /\ sentId \in SentIds /\ versionObject = sentId)
    /\ (mpc = "create") => (sends = 1 /\ sentId \in SentIds /\ versionsCreated = 0)
    /\ (mpc = "done") => (sends = 1 /\ versionsCreated = 1)
    /\ (mpc = "failed" /\ sentId = Null) => versionsCreated = 0
    /\ (mpc \in {"start", "receive", "loop"}) => (sends = 0 /\ versionsCreated = 0)

\* a run that visited two children, sent and created the version
C17_Witness ==
    /\ mpc = "done" /\ mI = 2 /\ sentAfter = 2
    /\ versionsCreated = 1 /\ versionObject = sentId

\* C18: the children iterated are those under "@elements" when it holds a
\* non-empty sequence, otherwise those under "elements"; with neither member
\* nothing is iterated, nothing fails in the loop, the root-level properties
\* are set and the workflow goes on to send and create the version.
C18_ChildSequenceChoice ==
    LET neither == atElements = NoField /\ elements = NoField
        chosen == IF atElements.k = "list" /\ atElements.n > 0 THEN atElements.n
                  ELSE IF elements.k = "list" THEN elements.n
                  ELSE 0
    IN /\ mI <= chosen
       /\ (sends > 0) => sentAfter = chosen
       /\ (mpc = "loop" /\ mI = chosen) => ENABLED (\E id \in SentIds : Send(TRUE, id))
       /\ (neither /\ rootProps # {})
            => /\ mI = 0 /\ elemBefore = NoElement
               /\ rootProps = RootProperties
               /\ (mpc = "failed" => sends = 1)

\* with neither member the version was created after zero iterations
C18_Witness ==
    /\ atElements = NoField /\ elements = NoField
    /\ mpc = "done" /\ mI = 0 /\ rootProps = RootProperties
    /\ sends = 1 /\ versionsCreated = 1

\* C20: properties.Identity is used whenever it is a dictionary;
\* properties.BIM.Identity is used only when properties.Identity is absent
\* or not a dictionary; with both present only properties.Identity is
\* modified and properties.BIM.Identity is unchanged.
C20_TwoPathFallback ==
    (elemBefore # NoElement /\ elemBefore.k = "base" /\ elemBefore.properties # Absent)
        => LET before == elemBefore.properties
               after == elemAfter.properties
           IN /\ (before.Identity.k = "dict")
                   => /\ after.BIM = before.BIM
                      /\ (before.Identity.Module = Int(1)
                            => after.Identity.Designer = Giovanni)
                      /\ (before.Identity.Module = Int(3)
                            => after.Identity.Designer = Hala)
              /\ (after.BIM # before.BIM) => before.Identity.k # "dict"
              /\ (before.Identity.k # "dict") => after.Identity = before.Identity
              /\ (before.Identity.k # "dict" /\ before.BIM.k = "dict"
                    /\ before.BIM.Identity.k = "dict"
                    /\ before.BIM.Identity.Module = Int(1))
                   => after.BIM.Identity.Designer = Giovanni

\* both dictionaries present: Identity (Module 1) was modified and
\* BIM.Identity (Module 3) kept its Designer
C20_Witness ==
    /\ elemBefore.k = "base" /\ elemBefore.properties # Absent
    /\ elemBefore.properties.Identity.k = "dict"
    /\ elemBefore.properties.Identity.Module = Int(1)
    /\ elemBefore.properties.BIM.k = "dict"
    /\ elemBefore.properties.BIM.Identity.k = "dict"
    /\ elemBefore.properties.BIM.Identity.Module = Int(3)
    /\ elemBefore.properties.BIM.Identity.Designer = OldDesigner
    /\ elemAfter.properties.Identity.Designer = Giovanni
    /\ elemAfter.properties.BIM.Identity.Designer = OldDesigner


\* the value of a decimal digit character
DigitValue(c) ==
    CHOOSE d \in 0..9 : c = (<<"0","1","2","3","4","5","6","7","8","9">>)[d + 1]

\* tag is "Element_" followed by n written with three digits
IsTagOf(tag, n) ==
    /\ Len(tag) = 11
    /\ SubSeq(tag, 1, 8) = <<"E","l","e","m","e","n","t","_">>
    /\ \A j \in 9..11 : tag[j] \in {"0","1","2","3","4","5","6","7","8","9"}
    /\ 100 * DigitValue(tag[9]) + 10 * DigitValue(tag[10]) + DigitValue(tag[11]) = n

\* C21: the element_index written to a child element equals that element's
\* position in the original child sequence, counting the non-Base entries
\* that are skipped, and custom_tag is "Element_" followed by that same index
\* zero-padded to three digits; so the indices of the tagged elements are
\* strictly increasing and unique, but may have gaps.
C21_IndexIsPosition ==
    /\ \A p \in DOMAIN indices :
          indices[p] # Absent => indices[p] = Int(p - 1)
    /\ \A p, q \in DOMAIN indices :
          (p < q /\ indices[p] # Absent /\ indices[q] # Absent)
              => indices[p].v < indices[q].v
    /\ (elemBefore # NoElement /\ elemBefore.k = "base")
          => /\ elemAfter.element_index = Int(Len(indices) - 1)
             /\ elemAfter.custom_tag.k = "str"
             /\ IsTagOf(elemAfter.custom_tag.s, Len(indices) - 1)
    /\ (elemBefore # NoElement /\ elemBefore.k # "base")
          => indices[Len(indices)] = Absent

\* a Base child, a child that is not a Base and a Base child again: the
\* indices written are 0 and 2, and the last tag is Element_002
C21_Witness ==
    /\ indices = <<Int(0), Absent, Int(2)>>
    /\ elemAfter.k = "base"
    /\ elemAfter.custom_tag = Str(<<"E","l","e","m","e","n","t","_","0","0","2">>)


\* C22: in 7autobackup the HTTP session opened for a notification's fetch is
\* closed on every exit of fetch_and_save_data (file written, empty data or
\* query failure) before the next notification is consumed, so at most one
\* HTTP session is open at any time and none is open while the loop waits
\* for the next notification.
C22_HttpSessionClosed ==
    (script = "7")
        => /\ httpOpen \in {0, 1}
           /\ (pc = "listen" => httpOpen = 0)
           /\ (outcome \in {"saved", "skipped", "failed"} => httpOpen = 0)
           /\ (pc = "execute" => (httpOpen = 1 /\ outcome = "pending"))

\* the second backup of a run has ended on a query failure and the loop
\* waits again, the first one having ended too
C22_Witness ==
    /\ script = "7"
    /\ received = 2 /\ completed = 2
    /\ result.k = "raise" /\ outcome = "failed"
    /\ pc = "listen" /\ httpOpen = 0

====
